---- MODULE Spec2Model ----
(***************************************************************************)
(* Model of src/main/graphic_main.c (cmr-graphic): the command-line        *)
(* driver main, and the two conversions matrixToGraph and graphToMatrix.   *)
(*                                                                         *)
(*   Spec      main: argument loop, format resolution, dispatch, exit code *)
(*   SpecConv  the two conversions, entered with the arguments main can    *)
(*             dispatch them with, run statement by statement              *)
(***************************************************************************)
EXTENDS Integers, Sequences, FiniteSets, TLC

VARIABLES
  pc,                        \* position in the program
  argc, a,                   \* main: argument count and loop counter
  inputFormat, outputFormat, \* main / both conversions: FileFormat values
  transposed,                \* main's -t flag; the conversions' "cographic"
  instanceFileName,
  outputNonGraphicElements, outputNonGraphicMatrix, printStats,
  iGiven, oGiven,            \* history: an -i / -o option has been parsed
  error, exitCode,           \* main: conversion result, process exit code
  stdout,                    \* what has been printed to stdout so far
  instanceFile, cmr,         \* conversions: file handle, environment
  matrix, graph,             \* conversions: the matrix, the graph
  isCoGraphic, rowEdges, columnEdges, submatrix,   \* matrixToGraph locals
  engineSubmatrix,           \* history: what the engine stored in submatrix
  edgeElements, numForestEdges, numCoforestEdges,  \* graphToMatrix locals
  forestEdges, coforestEdges,
  k,                         \* the running loop's counter / edge iterator
  oob,                       \* an array was accessed outside its bounds
  alloc,                     \* the resources acquired and not yet released
  ret                        \* the conversion's return value

mainVars == <<pc, argc, a, inputFormat, outputFormat, transposed,
              instanceFileName, outputNonGraphicElements,
              outputNonGraphicMatrix, printStats, iGiven, oGiven, error,
              exitCode, stdout>>

convVars == <<instanceFile, cmr, matrix, graph, isCoGraphic, rowEdges,
              columnEdges, submatrix, engineSubmatrix, edgeElements,
              numForestEdges, numCoforestEdges, forestEdges, coforestEdges,
              k, oob, alloc, ret>>

vars == <<mainVars, convVars>>

----------------------------------------------------------------------------
(* Bounds *)

MaxArgc == 6        \* argc ranges over 1..MaxArgc

----------------------------------------------------------------------------
(* typedef enum FileFormat *)

FILEFORMAT_UNDEFINED == 0
FILEFORMAT_MATRIX_DENSE == 1
FILEFORMAT_MATRIX_SPARSE == 2
FILEFORMAT_GRAPH_EDGELIST == 3
FILEFORMAT_GRAPH_DOT == 4

MatrixFormats == {FILEFORMAT_MATRIX_DENSE, FILEFORMAT_MATRIX_SPARSE}
GraphFormats == {FILEFORMAT_GRAPH_EDGELIST, FILEFORMAT_GRAPH_DOT}

EXIT_SUCCESS == 0
EXIT_FAILURE == 1

\* A pointer is NULL or points to one value.
NULL == <<>>
Ptr(x) == <<x>>
Deref(p) == p[1]

NoMsg == ""

\* The values of CMR_ERROR main distinguishes (switch at the end of main);
\* CMR_ERROR_OTHER stands for every code that falls to "default:".
CMR_OKAY == "CMR_OKAY"
CMR_ERROR_INPUT == "CMR_ERROR_INPUT"
CMR_ERROR_MEMORY == "CMR_ERROR_MEMORY"
CMR_ERROR_OTHER == "CMR_ERROR_OTHER"
CMR_ERROR == {CMR_OKAY, CMR_ERROR_INPUT, CMR_ERROR_MEMORY, CMR_ERROR_OTHER}
UNSET == "UNSET"

\* The strings argv[a] is drawn from: every string main compares against,
\* the stdin name, an ordinary file name and an unknown format word.
Tokens == {"-h", "-t", "-n", "-N", "-s", "-i", "-o",
           "dense", "sparse", "edgelist", "dot", "-", "file", "bogus"}

\* Messages of main on stdout.
MsgUsage == "Usage"
MsgUnknownInput == "Error: unknown input file format"
MsgUnknownOutput == "Error: unknown output format"
MsgTwoFiles == "Error: Two input files specified"
MsgNoFile == "No input file specified."
MsgNeedGraph == "Either input or output must be a graph."
MsgNeedMatrix == "Either input or output must be a matrix."
MsgInputError == "Input error."
MsgMemoryError == "Memory error."

----------------------------------------------------------------------------
(* printUsage: prints the usage and returns EXIT_FAILURE. *)

printUsage_ReturnsSuccess == EXIT_SUCCESS

printUsage == EXIT_FAILURE

\* "return printUsage(argv[0])" after printing msg.
ReturnUsage(msg) ==
  /\ stdout' = stdout \o <<msg, MsgUsage>>
  /\ exitCode' = printUsage
  /\ pc' = "exit"

----------------------------------------------------------------------------
(* The conversions' locals before the call. *)

ConvIdle ==
  /\ instanceFile = NULL
  /\ cmr = NULL
  /\ matrix = NULL
  /\ graph = NULL
  /\ isCoGraphic = FALSE
  /\ rowEdges = NULL
  /\ columnEdges = NULL
  /\ submatrix = NULL
  /\ engineSubmatrix = NULL
  /\ edgeElements = NULL
  /\ numForestEdges = 0
  /\ numCoforestEdges = 0
  /\ forestEdges = NULL
  /\ coforestEdges = NULL
  /\ k = 0
  /\ oob = FALSE
  /\ alloc = {}
  /\ ret = UNSET

----------------------------------------------------------------------------
(* main: the argument loop *)

InitMain ==
  /\ pc = "main_loop"
  /\ argc \in 1..MaxArgc
  /\ a = 1
  /\ inputFormat = FILEFORMAT_UNDEFINED
  /\ outputFormat = FILEFORMAT_UNDEFINED
  /\ transposed = FALSE
  /\ instanceFileName = NULL
  /\ outputNonGraphicElements = FALSE
  /\ outputNonGraphicMatrix = FALSE
  /\ printStats = FALSE
  /\ iGiven = FALSE
  /\ oGiven = FALSE
  /\ error = UNSET
  /\ exitCode = UNSET
  /\ stdout = <<>>
  /\ ConvIdle

InLoop == pc = "main_loop" /\ a < argc

\* argv[a] is "-h"
ArgHelp ==
  /\ InLoop
  /\ stdout' = Append(stdout, MsgUsage)
  /\ exitCode' = EXIT_SUCCESS
  /\ pc' = "exit"
  /\ UNCHANGED <<argc, a, inputFormat, outputFormat, transposed,
                 instanceFileName, outputNonGraphicElements,
                 outputNonGraphicMatrix, printStats, iGiven, oGiven, error>>
  /\ UNCHANGED convVars

\* argv[a] is one of "-t", "-n", "-N", "-s"
ArgFlag ==
  /\ InLoop
  /\ \E tok \in {"-t", "-n", "-N", "-s"} :
       /\ transposed' = (transposed \/ tok = "-t")
       /\ outputNonGraphicElements' = (outputNonGraphicElements \/ tok = "-n")
       /\ outputNonGraphicMatrix' = (outputNonGraphicMatrix \/ tok = "-N")
       /\ printStats' = (printStats \/ tok = "-s")
  /\ a' = a + 1
  /\ UNCHANGED <<pc, argc, inputFormat, outputFormat, instanceFileName,
                 iGiven, oGiven, error, exitCode, stdout>>
  /\ UNCHANGED convVars

\* The format a word names after -i; UNDEFINED when it names none.
InputFormatOf(word) ==
  CASE word = "dense" -> FILEFORMAT_MATRIX_DENSE
    [] word = "sparse" -> FILEFORMAT_MATRIX_SPARSE
    [] word = "edgelist" -> FILEFORMAT_GRAPH_EDGELIST
    [] OTHER -> FILEFORMAT_UNDEFINED

\* The format a word names after -o; UNDEFINED when it names none.
OutputFormatOf(word) ==
  CASE word = "dense" -> FILEFORMAT_MATRIX_DENSE
    [] word = "sparse" -> FILEFORMAT_MATRIX_SPARSE
    [] word = "edgelist" -> FILEFORMAT_GRAPH_EDGELIST
    [] word = "dot" -> FILEFORMAT_GRAPH_DOT
    [] OTHER -> FILEFORMAT_UNDEFINED

\* argv[a] is "-i" and a+1 < argc; argv[a+1] is word
ArgInput ==
  /\ InLoop
  /\ a + 1 < argc
  /\ \E word \in Tokens :
       IF InputFormatOf(word) # FILEFORMAT_UNDEFINED
       THEN /\ inputFormat' = InputFormatOf(word)
            /\ iGiven' = TRUE
            /\ a' = a + 2
            /\ UNCHANGED <<pc, exitCode, stdout>>
       ELSE /\ ReturnUsage(MsgUnknownInput)
            /\ UNCHANGED <<inputFormat, iGiven, a>>
  /\ UNCHANGED <<argc, outputFormat, transposed, instanceFileName,
                 outputNonGraphicElements, outputNonGraphicMatrix,
                 printStats, oGiven, error>>
  /\ UNCHANGED convVars

\* argv[a] is "-o" and a+1 < argc; argv[a+1] is word
ArgOutput ==
  /\ InLoop
  /\ a + 1 < argc
  /\ \E word \in Tokens :
       IF OutputFormatOf(word) # FILEFORMAT_UNDEFINED
       THEN /\ outputFormat' = OutputFormatOf(word)
            /\ oGiven' = TRUE
            /\ a' = a + 2
            /\ UNCHANGED <<pc, exitCode, stdout>>
       ELSE /\ ReturnUsage(MsgUnknownOutput)
            /\ UNCHANGED <<outputFormat, oGiven, a>>
  /\ UNCHANGED <<argc, inputFormat, transposed, instanceFileName,
                 outputNonGraphicElements, outputNonGraphicMatrix,
                 printStats, iGiven, error>>
  /\ UNCHANGED convVars

\* The strings that reach the last two branches of the loop: everything but
\* the flags, and "-i" / "-o" only as the last argument.
FallsThrough(tok) ==
  /\ tok \notin {"-h", "-t", "-n", "-N", "-s"}
  /\ tok \in {"-i", "-o"} => ~(a + 1 < argc)

\* argv[a] matches no option and no file name is set yet
ArgFile ==
  /\ InLoop
  /\ instanceFileName = NULL
  /\ \E tok \in Tokens : FallsThrough(tok) /\ instanceFileName' = Ptr(tok)
  /\ a' = a + 1
  /\ UNCHANGED <<pc, argc, inputFormat, outputFormat, transposed,
                 outputNonGraphicElements, outputNonGraphicMatrix,
                 printStats, iGiven, oGiven, error, exitCode, stdout>>
  /\ UNCHANGED convVars

\* argv[a] matches no option and a file name is already set
ArgTwoFiles ==
  /\ InLoop
  /\ instanceFileName # NULL
  /\ \E tok \in Tokens : FallsThrough(tok)
  /\ ReturnUsage(MsgTwoFiles)
  /\ UNCHANGED <<argc, a, inputFormat, outputFormat, transposed,
                 instanceFileName, outputNonGraphicElements,
                 outputNonGraphicMatrix, printStats, iGiven, oGiven, error>>
  /\ UNCHANGED convVars

\* The loop is over and no file name was given.
NoInputFile ==
  /\ pc = "main_loop" /\ ~(a < argc)
  /\ instanceFileName = NULL
  /\ ReturnUsage(MsgNoFile)
  /\ UNCHANGED <<argc, a, inputFormat, outputFormat, transposed,
                 instanceFileName, outputNonGraphicElements,
                 outputNonGraphicMatrix, printStats, iGiven, oGiven, error>>
  /\ UNCHANGED convVars

LoopDone ==
  /\ pc = "main_loop" /\ ~(a < argc)
  /\ instanceFileName # NULL
  /\ pc' = "resolve"
  /\ UNCHANGED <<argc, a, inputFormat, outputFormat, transposed,
                 instanceFileName, outputNonGraphicElements,
                 outputNonGraphicMatrix, printStats, iGiven, oGiven, error,
                 exitCode, stdout>>
  /\ UNCHANGED convVars

----------------------------------------------------------------------------
(* main: format resolution.  ResolveFormats(in, out) is the outcome of the  *)
(* if / else-if chain: the two formats, and the message of the usage error  *)
(* it ends with (NoMsg when it ends with none).                              *)

ResolveFormats_NoPairingCheck(in, out) ==
  IF in = FILEFORMAT_UNDEFINED
  THEN IF out = FILEFORMAT_UNDEFINED
       THEN [in |-> FILEFORMAT_MATRIX_DENSE, out |-> FILEFORMAT_GRAPH_EDGELIST,
             msg |-> NoMsg]
       ELSE IF out \in MatrixFormats
       THEN [in |-> FILEFORMAT_GRAPH_EDGELIST, out |-> out, msg |-> NoMsg]
       ELSE [in |-> FILEFORMAT_MATRIX_DENSE, out |-> out, msg |-> NoMsg]
  ELSE IF in \in MatrixFormats
  THEN IF out = FILEFORMAT_UNDEFINED
       THEN [in |-> in, out |-> FILEFORMAT_GRAPH_EDGELIST, msg |-> NoMsg]
       ELSE [in |-> in, out |-> out, msg |-> NoMsg]
  ELSE IF out = FILEFORMAT_UNDEFINED
       THEN [in |-> in, out |-> FILEFORMAT_MATRIX_DENSE, msg |-> NoMsg]
       ELSE IF ~(out \in MatrixFormats)
       THEN [in |-> in, out |-> out, msg |-> MsgNeedMatrix]
       ELSE [in |-> in, out |-> out, msg |-> NoMsg]

ResolveFormats_AlwaysDense(in, out) ==
  IF in = FILEFORMAT_UNDEFINED
  THEN IF out = FILEFORMAT_UNDEFINED
       THEN [in |-> FILEFORMAT_MATRIX_DENSE, out |-> FILEFORMAT_GRAPH_EDGELIST,
             msg |-> NoMsg]
       ELSE [in |-> FILEFORMAT_MATRIX_DENSE, out |-> out, msg |-> NoMsg]
  ELSE IF in \in MatrixFormats
  THEN IF out = FILEFORMAT_UNDEFINED
       THEN [in |-> in, out |-> FILEFORMAT_GRAPH_EDGELIST, msg |-> NoMsg]
       ELSE IF out \in MatrixFormats
       THEN [in |-> in, out |-> out, msg |-> MsgNeedGraph]
       ELSE [in |-> in, out |-> out, msg |-> NoMsg]
  ELSE IF out = FILEFORMAT_UNDEFINED
       THEN [in |-> in, out |-> FILEFORMAT_MATRIX_DENSE, msg |-> NoMsg]
       ELSE IF ~(out \in MatrixFormats)
       THEN [in |-> in, out |-> out, msg |-> MsgNeedMatrix]
       ELSE [in |-> in, out |-> out, msg |-> NoMsg]

ResolveFormats(in, out) ==
  IF in = FILEFORMAT_UNDEFINED
  THEN IF out = FILEFORMAT_UNDEFINED
       THEN [in |-> FILEFORMAT_MATRIX_DENSE, out |-> FILEFORMAT_GRAPH_EDGELIST,
             msg |-> NoMsg]
       ELSE IF out \in MatrixFormats
       THEN [in |-> FILEFORMAT_GRAPH_EDGELIST, out |-> out, msg |-> NoMsg]
       ELSE [in |-> FILEFORMAT_MATRIX_DENSE, out |-> out, msg |-> NoMsg]
  ELSE IF in \in MatrixFormats
  THEN IF out = FILEFORMAT_UNDEFINED
       THEN [in |-> in, out |-> FILEFORMAT_GRAPH_EDGELIST, msg |-> NoMsg]
       ELSE IF out \in MatrixFormats
       THEN [in |-> in, out |-> out, msg |-> MsgNeedGraph]
       ELSE [in |-> in, out |-> out, msg |-> NoMsg]
  ELSE \* Input format is graph format.
       IF out = FILEFORMAT_UNDEFINED
       THEN [in |-> in, out |-> FILEFORMAT_MATRIX_DENSE, msg |-> NoMsg]
       ELSE IF ~(out \in MatrixFormats)
       THEN [in |-> in, out |-> out, msg |-> MsgNeedMatrix]
       ELSE [in |-> in, out |-> out, msg |-> NoMsg]

Resolve ==
  /\ pc = "resolve"
  /\ LET r == ResolveFormats(inputFormat, outputFormat) IN
       /\ inputFormat' = r.in
       /\ outputFormat' = r.out
       /\ IF r.msg # NoMsg
          THEN ReturnUsage(r.msg)
          ELSE pc' = "dispatch" /\ UNCHANGED <<exitCode, stdout>>
  /\ UNCHANGED <<argc, a, transposed, instanceFileName,
                 outputNonGraphicElements, outputNonGraphicMatrix,
                 printStats, iGiven, oGiven, error>>
  /\ UNCHANGED convVars

----------------------------------------------------------------------------
(* main: dispatch and exit code.  pc = "matrixToGraph" / "graphToMatrix"     *)
(* is main waiting in that call; SpecConv runs the call statement by        *)
(* statement, and here it returns any CMR_ERROR.                            *)

\* if (inputFormat == DENSE || inputFormat == SPARSE) ... else ...
Callee ==
  IF inputFormat \in MatrixFormats THEN "matrixToGraph" ELSE "graphToMatrix"

Dispatch ==
  /\ pc = "dispatch"
  /\ pc' = Callee
  /\ UNCHANGED <<argc, a, inputFormat, outputFormat, transposed,
                 instanceFileName, outputNonGraphicElements,
                 outputNonGraphicMatrix, printStats, iGiven, oGiven, error,
                 exitCode, stdout>>
  /\ UNCHANGED convVars

ConversionReturns ==
  /\ pc \in {"matrixToGraph", "graphToMatrix"}
  /\ error' \in CMR_ERROR
  /\ pc' = "switch"
  /\ UNCHANGED <<argc, a, inputFormat, outputFormat, transposed,
                 instanceFileName, outputNonGraphicElements,
                 outputNonGraphicMatrix, printStats, iGiven, oGiven,
                 exitCode, stdout>>
  /\ UNCHANGED convVars

\* switch (error)
ExitCodeOf(err) ==
  CASE err = CMR_ERROR_INPUT -> EXIT_FAILURE
    [] err = CMR_ERROR_MEMORY -> EXIT_FAILURE
    [] OTHER -> EXIT_SUCCESS

Switch ==
  /\ pc = "switch"
  /\ stdout' = CASE error = CMR_ERROR_INPUT -> Append(stdout, MsgInputError)
                 [] error = CMR_ERROR_MEMORY -> Append(stdout, MsgMemoryError)
                 [] OTHER -> stdout
  /\ exitCode' = ExitCodeOf(error)
  /\ pc' = "exit"
  /\ UNCHANGED <<argc, a, inputFormat, outputFormat, transposed,
                 instanceFileName, outputNonGraphicElements,
                 outputNonGraphicMatrix, printStats, iGiven, oGiven, error>>
  /\ UNCHANGED convVars

NextMain ==
  \/ ArgHelp
  \/ ArgFlag
  \/ ArgInput
  \/ ArgOutput
  \/ ArgFile
  \/ ArgTwoFiles
  \/ NoInputFile
  \/ LoopDone
  \/ Resolve
  \/ Dispatch
  \/ ConversionReturns
  \/ Switch

Init == InitMain

Next == NextMain

Spec == Init /\ [][Next]_vars

----------------------------------------------------------------------------
(* The two conversions: what they share.                                    *)

MaxRows == 2        \* the matrix read has 0..MaxRows rows
MaxColumns == 2     \* ... and 0..MaxColumns columns
MaxEdges == 3       \* the graph read has 0..MaxEdges edges
MaxIndex == 1       \* the edge tags read are r1..r<MaxIndex+1>, c1..c<MaxIndex+1>

\* main's variables, which no statement of a conversion touches.
callerVars == <<argc, a, inputFormat, outputFormat, transposed,
                instanceFileName, outputNonGraphicElements,
                outputNonGraphicMatrix, printStats, iGiven, oGiven, error,
                exitCode>>

m2gLocals == <<isCoGraphic, rowEdges, columnEdges, submatrix, engineSubmatrix>>

g2mLocals == <<edgeElements, numForestEdges, numCoforestEdges, forestEdges,
               coforestEdges>>

\* main passes transposed as the parameter cographic.
cographic == transposed

\* The error codes a collaborator call can report.
Failures == CMR_ERROR \ {CMR_OKAY}

\* CMR_CALL(call) when the call reports an error: the function returns the
\* error at once, with nothing released.
CMR_CALL_Failed(code, returnPc) ==
  /\ ret' = code
  /\ pc' = returnPc

\* main's locals while a conversion runs (the command line "-i F -o F ...").
CallerWaiting ==
  /\ argc = MaxArgc
  /\ a = argc
  /\ iGiven = TRUE
  /\ oGiven = TRUE
  /\ error = UNSET
  /\ exitCode = UNSET
  /\ stdout = <<>>

\* FILE* instanceFile = strcmp(name, "-") ? fopen(name, "r") : stdin;
\* if (!instanceFile) return CMR_ERROR_INPUT;
OpenInstanceFile(here, next, returnPc) ==
  /\ pc = here
  /\ \/ /\ Deref(instanceFileName) = "-"
        /\ instanceFile' = Ptr("stdin")
        /\ pc' = next
        /\ UNCHANGED <<alloc, ret>>
     \/ /\ Deref(instanceFileName) # "-"
        /\ instanceFile' = Ptr("file")
        /\ alloc' = alloc \cup {"instanceFile"}
        /\ pc' = next
        /\ UNCHANGED ret
     \/ /\ Deref(instanceFileName) # "-"
        /\ ret' = CMR_ERROR_INPUT
        /\ pc' = returnPc
        /\ UNCHANGED <<instanceFile, alloc>>
  /\ UNCHANGED <<callerVars, stdout, cmr, matrix, graph, m2gLocals, g2mLocals,
                 k, oob>>

\* CMR* cmr = NULL; CMR_CALL( CMRcreateEnvironment(&cmr) );
CreateEnvironment(here, next, returnPc) ==
  /\ pc = here
  /\ \/ /\ cmr' = Ptr("env")
        /\ alloc' = alloc \cup {"cmr"}
        /\ pc' = next
        /\ UNCHANGED ret
     \/ /\ \E code \in Failures : CMR_CALL_Failed(code, returnPc)
        /\ UNCHANGED <<cmr, alloc>>
  /\ UNCHANGED <<callerVars, stdout, instanceFile, matrix, graph, m2gLocals,
                 g2mLocals, k, oob>>

\* if (instanceFile != stdin) fclose(instanceFile);
AfterClose(file) == IF file = Ptr("stdin") THEN file ELSE Ptr("closed")

\* A line of output: an edge with its endpoints and its label tag<num>, or
\* a line of other text.
EdgeLine(kind, u, v, tag, num) ==
  [kind |-> kind, u |-> u, v |-> v, tag |-> tag, num |-> num]

TextLine(text) == [kind |-> text, u |-> 0, v |-> 0, tag |-> "", num |-> 0]

----------------------------------------------------------------------------
(* matrixToGraph                                                            *)

InitM2G ==
  /\ pc = "m2g_fopen"
  /\ inputFormat \in MatrixFormats
  /\ outputFormat \in GraphFormats
  /\ transposed \in BOOLEAN
  /\ outputNonGraphicElements \in BOOLEAN
  /\ outputNonGraphicMatrix \in BOOLEAN
  /\ printStats \in BOOLEAN
  /\ instanceFileName \in {Ptr("-"), Ptr("file")}
  /\ CallerWaiting
  /\ ConvIdle

M2GOpen == OpenInstanceFile("m2g_fopen", "m2g_createEnv", "m2g_return")

M2GCreateEnv == CreateEnvironment("m2g_createEnv", "m2g_read", "m2g_return")

\* Read matrix.
M2GReadMatrix ==
  /\ pc = "m2g_read"
  /\ \/ /\ inputFormat \in MatrixFormats
        /\ \E nr \in 0..MaxRows, nc \in 0..MaxColumns :
             matrix' = Ptr([numRows |-> nr, numColumns |-> nc])
        /\ alloc' = (alloc \cup {"matrix"}) \ {"instanceFile"}
        /\ instanceFile' = AfterClose(instanceFile)
        /\ pc' = "m2g_test"
        /\ UNCHANGED ret
     \/ /\ inputFormat \in MatrixFormats
        /\ \E code \in Failures : CMR_CALL_Failed(code, "m2g_return")
        /\ UNCHANGED <<matrix, alloc, instanceFile>>
     \/ \* no format matches: matrix is still NULL when matrix->numRows is read
        /\ inputFormat \notin MatrixFormats
        /\ alloc' = alloc \ {"instanceFile"}
        /\ instanceFile' = AfterClose(instanceFile)
        /\ pc' = "m2g_null_dereference"
        /\ UNCHANGED <<matrix, ret>>
  /\ UNCHANGED <<callerVars, stdout, cmr, graph, m2gLocals, g2mLocals, k, oob>>

\* The recognition engine's results on a positive verdict.  The graph has
\* one edge per row and per column; edge e joins the nodes e and e+1.  The
\* first edge array (the forest) holds the edges 0, 1, ..., the second (the
\* coforest) the edges after them.  CMRtestGraphicMatrix fills rowEdges with
\* one edge per row and columnEdges with one per column;
\* CMRtestCographicMatrix fills rowEdges with one edge per column and
\* columnEdges with one per row.
EngineGraph(nr, nc) == [numEdges |-> nr + nc]

EngineForest(n) == [i \in 1..n |-> i - 1]

EngineCoforest(nForest, n) == [i \in 1..n |-> nForest + i - 1]

EngineRowEdges(nr, nc) ==
  IF cographic THEN EngineForest(nc) ELSE EngineForest(nr)

EngineColumnEdges(nr, nc) ==
  IF cographic THEN EngineCoforest(nc, nr) ELSE EngineCoforest(nr, nc)

\* The violator the engine returns: here the whole matrix.
EngineSubmatrix(nr, nc) == [numRows |-> nr, numColumns |-> nc]

\* (outputNonGraphicElements || outputNonGraphicMatrix) ? &submatrix : NULL
SubmatrixRequested == outputNonGraphicElements \/ outputNonGraphicMatrix

\* Test for (co)graphicness.
M2GTest ==
  /\ pc = "m2g_test"
  /\ LET nr == Deref(matrix).numRows
         nc == Deref(matrix).numColumns
     IN
     \/ /\ isCoGraphic' = TRUE
        /\ graph' = Ptr(EngineGraph(nr, nc))
        /\ rowEdges' = Ptr(EngineRowEdges(nr, nc))
        /\ columnEdges' = Ptr(EngineColumnEdges(nr, nc))
        /\ alloc' = alloc \cup {"graph", "rowEdges", "columnEdges"}
        /\ pc' = "m2g_stats"
        /\ UNCHANGED <<submatrix, engineSubmatrix, ret>>
     \/ /\ nr > 0 /\ nc > 0   \* a matrix without entries is (co)graphic
        /\ isCoGraphic' = FALSE
        /\ \E sub \in IF SubmatrixRequested
                      THEN {NULL, Ptr(EngineSubmatrix(nr, nc))}
                      ELSE {NULL} :
             /\ submatrix' = sub
             /\ engineSubmatrix' = sub
             /\ alloc' = IF sub = NULL THEN alloc
                                       ELSE alloc \cup {"submatrix"}
        /\ pc' = "m2g_stats"
        /\ UNCHANGED <<graph, rowEdges, columnEdges, ret>>
     \/ /\ \E code \in Failures : CMR_CALL_Failed(code, "m2g_return")
        /\ UNCHANGED <<isCoGraphic, graph, rowEdges, columnEdges, submatrix,
                       engineSubmatrix, alloc>>
  /\ UNCHANGED <<callerVars, stdout, instanceFile, cmr, matrix, g2mLocals,
                 k, oob>>

\* The statement after the verdict and the statistics: the first loop of the
\* output form chosen, or the violator output on a negative verdict.
M2GOutputBranch_IgnoresCographic ==
  IF isCoGraphic
  THEN IF outputFormat = FILEFORMAT_GRAPH_EDGELIST
       THEN "m2g_el_rows"
       ELSE IF outputFormat = FILEFORMAT_GRAPH_DOT
       THEN "m2g_dot_rows"
       ELSE "m2g_free"
  ELSE "m2g_elements"

M2GOutputBranch ==
  IF isCoGraphic
  THEN IF outputFormat = FILEFORMAT_GRAPH_EDGELIST
       THEN IF cographic THEN "m2g_el_co_columns" ELSE "m2g_el_rows"
       ELSE IF outputFormat = FILEFORMAT_GRAPH_DOT
       THEN "m2g_dot_rows"
       ELSE "m2g_free"
  ELSE "m2g_elements"

\* if (printStats) CMR_CALL( CMRstatsGraphicPrint(...) ); then the branch;
\* the dot form starts with puts("graph G {").
M2GStats ==
  /\ pc = "m2g_stats"
  /\ \/ /\ pc' = M2GOutputBranch
        /\ stdout' = IF M2GOutputBranch = "m2g_dot_rows"
                     THEN Append(stdout, TextLine("graph G {"))
                     ELSE stdout
        /\ UNCHANGED ret
     \/ /\ printStats
        /\ \E code \in Failures : CMR_CALL_Failed(code, "m2g_return")
        /\ UNCHANGED stdout
  /\ UNCHANGED <<callerVars, instanceFile, cmr, matrix, graph, m2gLocals,
                 g2mLocals, k, oob, alloc>>

\* bool* edgesReversed = NULL; nothing assigns it afterwards.
edgesReversed == NULL

\* An edge value that is no edge of the graph: what a read outside an array
\* can yield besides an edge.
GarbageEdge == -1

\* CMR_GRAPH_EDGE e = array[index]: the values the read can yield.  A read
\* outside the array yields any edge or garbage.
ReadEdge(array, index) ==
  IF index < Len(array)
  THEN {array[index + 1]}
  ELSE (0..(Deref(graph).numEdges - 1)) \cup {GarbageEdge}

CMRgraphEdgeU(g, e) == IF e \in 0..(g.numEdges - 1) THEN e ELSE GarbageEdge

CMRgraphEdgeV(g, e) == IF e \in 0..(g.numEdges - 1) THEN e + 1 ELSE GarbageEdge

\* u, v of edge e, swapped if (edgesReversed && edgesReversed[e]).
Endpoints(e) ==
  LET u == CMRgraphEdgeU(Deref(graph), e)
      v == CMRgraphEdgeV(Deref(graph), e)
  IN IF edgesReversed # NULL /\ Deref(edgesReversed)[e + 1]
     THEN <<v, u>>
     ELSE <<u, v>>

\* One of the six output loops: for (index = 0; index < bound; ++index)
\* { e = array[index]; ...; printf(u, v, tag<index+1>); }, and after it the
\* lines of trailer.
OutputLoop(here, next, array, bound, kind, tag, trailer) ==
  /\ pc = here
  /\ IF k < bound
     THEN /\ \E e \in ReadEdge(Deref(array), k) :
               stdout' = Append(stdout, EdgeLine(kind, Endpoints(e)[1],
                                                 Endpoints(e)[2], tag, k + 1))
          /\ oob' = (oob \/ ~(k < Len(Deref(array))))
          /\ k' = k + 1
          /\ UNCHANGED pc
     ELSE /\ stdout' = stdout \o trailer
          /\ k' = 0
          /\ pc' = next
          /\ UNCHANGED oob
  /\ UNCHANGED <<callerVars, instanceFile, cmr, matrix, graph, m2gLocals,
                 g2mLocals, alloc, ret>>

numRows == Deref(matrix).numRows

numColumns == Deref(matrix).numColumns

\* edge list, cographic: for (column ...) e = rowEdges[column] ... c<column+1>
M2GEdgeListCoColumns ==
  OutputLoop("m2g_el_co_columns", "m2g_el_co_rows", rowEdges, numColumns,
             "edge", "c", <<>>)

\* edge list, cographic: for (row ...) e = columnEdges[row] ... r<row+1>
M2GEdgeListCoRows ==
  OutputLoop("m2g_el_co_rows", "m2g_free", columnEdges, numRows,
             "edge", "r", <<>>)

\* edge list, graphic: for (row ...) e = rowEdges[row] ... r<row+1>
M2GEdgeListRows ==
  OutputLoop("m2g_el_rows", "m2g_el_columns", rowEdges, numRows,
             "edge", "r", <<>>)

\* edge list, graphic: for (column ...) e = columnEdges[column] ... c<column+1>
M2GEdgeListColumns ==
  OutputLoop("m2g_el_columns", "m2g_free", columnEdges, numColumns,
             "edge", "c", <<>>)

\* dot: for (row ...) e = rowEdges[row] ... label r<row+1>, bold red
M2GDotRows ==
  OutputLoop("m2g_dot_rows", "m2g_dot_columns", rowEdges, numRows,
             "dot bold", "r", <<>>)

\* dot: for (column ...) e = columnEdges[column] ... label c<column+1>; "}"
M2GDotColumns ==
  OutputLoop("m2g_dot_columns", "m2g_free", columnEdges, numColumns,
             "dot", "c", <<TextLine("}")>>)

\* The end of "if (isCoGraphic)": the edge arrays and the graph are freed
\* (edgesReversed only if set).
M2GFree ==
  /\ pc = "m2g_free"
  /\ rowEdges' = NULL
  /\ columnEdges' = NULL
  /\ graph' = NULL
  /\ alloc' = alloc \ {"edgesReversed", "rowEdges", "columnEdges", "graph"}
  /\ pc' = "m2g_elements"
  /\ UNCHANGED <<callerVars, stdout, instanceFile, cmr, matrix, isCoGraphic,
                 submatrix, engineSubmatrix, g2mLocals, k, oob, ret>>

\* CMRsubmatFree(cmr, &submatrix): releases the submatrix, if any, and sets
\* the pointer to NULL (line 238 calls it again on the same pointer).
CMRsubmatFree(p) == NULL

\* if (submatrix && outputNonGraphicElements) { print the rows and the
\* columns; CMRsubmatFree(cmr, &submatrix); }
M2GElements ==
  /\ pc = "m2g_elements"
  /\ IF submatrix # NULL /\ outputNonGraphicElements
     THEN /\ stdout' = Append(stdout, TextLine("violator elements"))
          /\ submatrix' = CMRsubmatFree(submatrix)
          /\ alloc' = alloc \ {"submatrix"}
     ELSE UNCHANGED <<stdout, submatrix, alloc>>
  /\ pc' = "m2g_violator"
  /\ UNCHANGED <<callerVars, instanceFile, cmr, matrix, graph, isCoGraphic,
                 rowEdges, columnEdges, engineSubmatrix, g2mLocals, k, oob,
                 ret>>

\* if (submatrix && outputNonGraphicMatrix) { zoom; print in the input
\* format; free the violator matrix; }
M2GViolator ==
  /\ pc = "m2g_violator"
  /\ IF submatrix # NULL /\ outputNonGraphicMatrix
     THEN \/ \* CMRchrmatZoomSubmat fails
             /\ \E code \in Failures : CMR_CALL_Failed(code, "m2g_return")
             /\ UNCHANGED <<stdout, alloc>>
          \/ \* printing fails: the violator matrix is not freed
             /\ inputFormat \in MatrixFormats
             /\ \E code \in Failures : CMR_CALL_Failed(code, "m2g_return")
             /\ alloc' = alloc \cup {"violatorMatrix"}
             /\ UNCHANGED stdout
          \/ /\ stdout' = IF inputFormat \in MatrixFormats
                          THEN Append(stdout, TextLine("violator matrix"))
                          ELSE stdout
             /\ pc' = "m2g_cleanup"
             /\ UNCHANGED <<alloc, ret>>
     ELSE /\ pc' = "m2g_cleanup"
          /\ UNCHANGED <<stdout, alloc, ret>>
  /\ UNCHANGED <<callerVars, instanceFile, cmr, matrix, graph, m2gLocals,
                 g2mLocals, k, oob>>

\* CMRsubmatFree, CMRchrmatFree, CMRfreeEnvironment; return CMR_OKAY.
M2GCleanup ==
  /\ pc = "m2g_cleanup"
  /\ submatrix' = CMRsubmatFree(submatrix)
  /\ matrix' = NULL
  /\ cmr' = NULL
  /\ alloc' = alloc \ {"submatrix", "matrix", "cmr"}
  /\ ret' = CMR_OKAY
  /\ pc' = "m2g_return"
  /\ UNCHANGED <<callerVars, stdout, instanceFile, graph, isCoGraphic,
                 rowEdges, columnEdges, engineSubmatrix, g2mLocals, k, oob>>

NextM2G ==
  \/ M2GOpen
  \/ M2GCreateEnv
  \/ M2GReadMatrix
  \/ M2GTest
  \/ M2GStats
  \/ M2GEdgeListCoColumns
  \/ M2GEdgeListCoRows
  \/ M2GEdgeListRows
  \/ M2GEdgeListColumns
  \/ M2GDotRows
  \/ M2GDotColumns
  \/ M2GFree
  \/ M2GElements
  \/ M2GViolator
  \/ M2GCleanup

----------------------------------------------------------------------------
(* graphToMatrix                                                            *)

\* CMR_ELEMENT: row i is the element -1-i, column j the element 1+j, and 0
\* is no element (an edge without tag).
CMRelementIsRow(element) == element < 0

CMRelementIsColumn(element) == element > 0

CMRelementToRowIndex(element) == -1 - element

CMRelementToColumnIndex(element) == element - 1

\* The elements an edge read from the edge list can carry.
Elements == (-(MaxIndex + 1))..(MaxIndex + 1)

InitG2M ==
  /\ pc = "g2m_fopen"
  /\ inputFormat = FILEFORMAT_GRAPH_EDGELIST
  /\ outputFormat \in MatrixFormats
  /\ transposed \in BOOLEAN
  /\ outputNonGraphicElements = FALSE
  /\ outputNonGraphicMatrix = FALSE
  /\ printStats = FALSE
  /\ instanceFileName \in {Ptr("-"), Ptr("file")}
  /\ CallerWaiting
  /\ ConvIdle

G2MOpen == OpenInstanceFile("g2m_fopen", "g2m_createEnv", "g2m_return")

G2MCreateEnv == CreateEnvironment("g2m_createEnv", "g2m_read", "g2m_return")

\* Read edge list.  The graph read has the edges 0..numEdges-1, and
\* edgeElements[e] is the element of edge e.
G2MReadGraph ==
  /\ pc = "g2m_read"
  /\ \/ /\ inputFormat = FILEFORMAT_GRAPH_EDGELIST
        /\ \E n \in 0..MaxEdges :
             /\ graph' = Ptr([numEdges |-> n])
             /\ \E elements \in [1..n -> Elements] :
                  edgeElements' = Ptr(elements)
        /\ alloc' = (alloc \cup {"graph", "edgeElements"}) \ {"instanceFile"}
        /\ instanceFile' = AfterClose(instanceFile)
        /\ pc' = "g2m_count"
        /\ UNCHANGED ret
     \/ /\ inputFormat = FILEFORMAT_GRAPH_EDGELIST
        /\ \E code \in Failures : CMR_CALL_Failed(code, "g2m_return")
        /\ UNCHANGED <<graph, edgeElements, alloc, instanceFile>>
     \/ \* no format matches: graph is still NULL when its edges are scanned
        /\ inputFormat # FILEFORMAT_GRAPH_EDGELIST
        /\ alloc' = alloc \ {"instanceFile"}
        /\ instanceFile' = AfterClose(instanceFile)
        /\ pc' = "g2m_null_dereference"
        /\ UNCHANGED <<graph, edgeElements, ret>>
  /\ k' = 0
  /\ UNCHANGED <<callerVars, stdout, cmr, matrix, m2gLocals, numForestEdges,
                 numCoforestEdges, forestEdges, coforestEdges, oob>>

\* The edge iterator: k runs over the edges in the graph's order.
CMRgraphEdgesValid(g, i) == i < g.numEdges

CMRgraphEdgesEdge(g, i) == i

\* CMR_ELEMENT element = edgeElements[e];
ElementOf(e) == Deref(edgeElements)[e + 1]

\* Scan edges for (co)forest edges: one iteration of the counting loop.
G2MCount ==
  /\ pc = "g2m_count"
  /\ IF CMRgraphEdgesValid(Deref(graph), k)
     THEN LET e == CMRgraphEdgesEdge(Deref(graph), k)
              element == ElementOf(e)
          IN /\ numForestEdges' = IF CMRelementIsRow(element)
                                  THEN numForestEdges + 1
                                  ELSE numForestEdges
             /\ numCoforestEdges' = IF ~CMRelementIsRow(element)
                                       /\ CMRelementIsColumn(element)
                                    THEN numCoforestEdges + 1
                                    ELSE numCoforestEdges
             /\ k' = k + 1
             /\ UNCHANGED pc
     ELSE /\ pc' = "g2m_alloc"
          /\ UNCHANGED <<numForestEdges, numCoforestEdges, k>>
  /\ UNCHANGED <<callerVars, stdout, instanceFile, cmr, matrix, graph,
                 m2gLocals, edgeElements, forestEdges, coforestEdges, oob,
                 alloc, ret>>

\* forestEdges[i] = -1; coforestEdges[i] = -1;
Unassigned == -1

\* Create list of (co)forest edges: both arrays, every slot unassigned.
G2MAlloc ==
  /\ pc = "g2m_alloc"
  /\ \/ /\ forestEdges' = Ptr([i \in 1..numForestEdges |-> Unassigned])
        /\ coforestEdges' = Ptr([i \in 1..numCoforestEdges |-> Unassigned])
        /\ alloc' = alloc \cup {"forestEdges", "coforestEdges"}
        /\ k' = 0
        /\ pc' = "g2m_scan"
        /\ UNCHANGED ret
     \/ \* the first allocation fails
        /\ \E code \in Failures : CMR_CALL_Failed(code, "g2m_return")
        /\ UNCHANGED <<forestEdges, coforestEdges, alloc, k>>
     \/ \* the second allocation fails
        /\ forestEdges' = Ptr([i \in 1..numForestEdges |-> Unassigned])
        /\ alloc' = alloc \cup {"forestEdges"}
        /\ \E code \in Failures : CMR_CALL_Failed(code, "g2m_return")
        /\ UNCHANGED <<coforestEdges, k>>
  /\ UNCHANGED <<callerVars, stdout, instanceFile, cmr, matrix, graph,
                 m2gLocals, edgeElements, numForestEdges, numCoforestEdges,
                 oob>>

\* if (rowIndex < numForestEdges) / if (columnIndex < numCoforestEdges)
IndexInRange_Inclusive(index, num) == index <= num

IndexInRange_AllButLast(index, num) == index + 1 < num

IndexInRange(index, num) == index < num

\* forestEdges[rowIndex] = e; / coforestEdges[columnIndex] = e;
\* A store outside the array changes no slot of it.
StoreEdge_KeepFirst(array, index, e) ==
  IF index < Len(array) /\ array[index + 1] = Unassigned
  THEN [array EXCEPT ![index + 1] = e]
  ELSE array

StoreEdge(array, index, e) ==
  IF index < Len(array)
  THEN [array EXCEPT ![index + 1] = e]
  ELSE array

\* One iteration of the second loop over the edges.
G2MScan ==
  /\ pc = "g2m_scan"
  /\ IF CMRgraphEdgesValid(Deref(graph), k)
     THEN LET e == CMRgraphEdgesEdge(Deref(graph), k)
              element == ElementOf(e)
              rowIndex == CMRelementToRowIndex(element)
              columnIndex == CMRelementToColumnIndex(element)
          IN /\ IF CMRelementIsRow(element)
                THEN IF IndexInRange(rowIndex, numForestEdges)
                     THEN /\ forestEdges' =
                               Ptr(StoreEdge(Deref(forestEdges), rowIndex, e))
                          /\ oob' = (oob \/ ~(rowIndex < Len(Deref(forestEdges))))
                          /\ UNCHANGED coforestEdges
                     ELSE UNCHANGED <<forestEdges, coforestEdges, oob>>
                ELSE IF CMRelementIsColumn(element)
                THEN IF IndexInRange(columnIndex, numCoforestEdges)
                     THEN /\ coforestEdges' =
                               Ptr(StoreEdge(Deref(coforestEdges), columnIndex, e))
                          /\ oob' = (oob \/ ~(columnIndex < Len(Deref(coforestEdges))))
                          /\ UNCHANGED forestEdges
                     ELSE UNCHANGED <<forestEdges, coforestEdges, oob>>
                ELSE UNCHANGED <<forestEdges, coforestEdges, oob>>
             /\ k' = k + 1
             /\ UNCHANGED pc
     ELSE /\ pc' = "g2m_compute"
          /\ UNCHANGED <<forestEdges, coforestEdges, oob, k>>
  /\ UNCHANGED <<callerVars, stdout, instanceFile, cmr, matrix, graph,
                 m2gLocals, edgeElements, numForestEdges, numCoforestEdges,
                 alloc, ret>>

\* CMRcomputeGraphicMatrix: the matrix goes to the second slot (the
\* transpose) if cographic and to the first otherwise.  isCorrectForest is
\* set by the call and never read.
G2MCompute ==
  /\ pc = "g2m_compute"
  /\ \/ /\ matrix' = Ptr(IF cographic
                         THEN [numRows |-> numCoforestEdges,
                               numColumns |-> numForestEdges]
                         ELSE [numRows |-> numForestEdges,
                               numColumns |-> numCoforestEdges])
        /\ alloc' = alloc \cup {"matrix"}
        /\ pc' = "g2m_print"
        /\ UNCHANGED ret
     \/ /\ \E code \in Failures : CMR_CALL_Failed(code, "g2m_return")
        /\ UNCHANGED <<matrix, alloc>>
  /\ UNCHANGED <<callerVars, stdout, instanceFile, cmr, graph, m2gLocals,
                 g2mLocals, k, oob>>

\* Print the matrix in the output format; assert(false) for any other.
G2MPrint ==
  /\ pc = "g2m_print"
  /\ \/ /\ outputFormat \in MatrixFormats
        /\ stdout' = Append(stdout, TextLine("matrix"))
        /\ pc' = "g2m_cleanup"
        /\ UNCHANGED ret
     \/ /\ outputFormat \in MatrixFormats
        /\ \E code \in Failures : CMR_CALL_Failed(code, "g2m_return")
        /\ UNCHANGED stdout
     \/ /\ outputFormat \notin MatrixFormats
        /\ pc' = "g2m_assert_false"
        /\ UNCHANGED <<stdout, ret>>
  /\ UNCHANGED <<callerVars, instanceFile, cmr, matrix, graph, m2gLocals,
                 g2mLocals, k, oob, alloc>>

\* CMRchrmatFree; free(coforestEdges); free(forestEdges); free(edgeElements);
\* CMRgraphFree; CMRfreeEnvironment; return CMR_OKAY.
G2MCleanup ==
  /\ pc = "g2m_cleanup"
  /\ matrix' = NULL
  /\ graph' = NULL
  /\ cmr' = NULL
  /\ alloc' = alloc \ {"matrix", "coforestEdges", "forestEdges",
                       "edgeElements", "graph", "cmr"}
  /\ ret' = CMR_OKAY
  /\ pc' = "g2m_return"
  /\ UNCHANGED <<callerVars, stdout, instanceFile, m2gLocals, g2mLocals, k,
                 oob>>

NextG2M ==
  \/ G2MOpen
  \/ G2MCreateEnv
  \/ G2MReadGraph
  \/ G2MCount
  \/ G2MAlloc
  \/ G2MScan
  \/ G2MCompute
  \/ G2MPrint
  \/ G2MCleanup

----------------------------------------------------------------------------
(* The conversions, each entered with the arguments main can pass it.       *)

InitConv == InitM2G \/ InitG2M

NextConv == NextM2G \/ NextG2M

SpecConv == InitConv /\ [][NextConv]_vars

----------------------------------------------------------------------------
(* Claims about main, checked under Spec *)

UsageErrors == {MsgUnknownInput, MsgUnknownOutput, MsgTwoFiles, MsgNoFile,
                MsgNeedGraph, MsgNeedMatrix}

\* main ended with a usage error: it printed one of the error messages
\* that precede the usage.
UsageError == \E n \in 1..Len(stdout) : stdout[n] \in UsageErrors

\* C6, as stated: at exit the exit code is non-zero exactly when the
\* conversion returned an input error or a memory error; it is zero in every
\* other case, usage errors included.
C6_ExitCodeAsStated ==
  pc = "exit" =>
    (exitCode # EXIT_SUCCESS <=> error \in {CMR_ERROR_INPUT, CMR_ERROR_MEMORY})

\* C6, amended: at exit the exit code is non-zero exactly when the conversion
\* returned an input error or a memory error, or main ended with a usage
\* error (unknown format, two input files, no input file, invalid format
\* pairing); it is zero for -h and for every other conversion result.
C6_ExitCode ==
  pc = "exit" =>
    (exitCode # EXIT_SUCCESS <=>
       (error \in {CMR_ERROR_INPUT, CMR_ERROR_MEMORY} \/ UsageError))

\* main ended with a usage error after both formats were given.
C6_Witness ==
  /\ pc = "exit"
  /\ exitCode = EXIT_FAILURE
  /\ error = UNSET
  /\ iGiven /\ oGiven
  /\ UsageError

\* The formats have been resolved and main went on.
Resolved ==
  pc \in {"dispatch", "matrixToGraph", "graphToMatrix", "switch"}
    \/ (pc = "exit" /\ error # UNSET)

DefaultOutputFor(in) ==
  IF in \in MatrixFormats THEN FILEFORMAT_GRAPH_EDGELIST
                          ELSE FILEFORMAT_MATRIX_DENSE

C10_DispatchPairing ==
  /\ pc = "matrixToGraph" =>
        inputFormat \in MatrixFormats /\ outputFormat \in GraphFormats
  /\ pc = "graphToMatrix" =>
        /\ inputFormat = FILEFORMAT_GRAPH_EDGELIST
        /\ outputFormat \in MatrixFormats

\* graphToMatrix is called after -i edgelist -o sparse.
C10_Witness ==
  /\ pc = "graphToMatrix"
  /\ iGiven /\ oGiven
  /\ inputFormat = FILEFORMAT_GRAPH_EDGELIST
  /\ outputFormat = FILEFORMAT_MATRIX_SPARSE

----------------------------------------------------------------------------
(* Claims about matrixToGraph, checked under SpecConv *)

RowLabels == [i \in 1..numRows |-> <<"r", i>>]

ColumnLabels == [j \in 1..numColumns |-> <<"c", j>>]

LabelsOf(lines) == [n \in 1..Len(lines) |-> <<lines[n].tag, lines[n].num>>]

\* C1: when the edge-list output of a positive verdict is complete, stdout
\* holds exactly one edge line per row, labelled r1, r2, ... in this order,
\* and one per column, labelled c1, c2, ... in this order; the row lines
\* come first when cographic is false, the column lines when it is true.
C1_EdgeListOrder ==
  pc = "m2g_free" /\ outputFormat = FILEFORMAT_GRAPH_EDGELIST =>
    /\ \A n \in 1..Len(stdout) : stdout[n].kind = "edge"
    /\ LabelsOf(stdout) = IF cographic THEN ColumnLabels \o RowLabels
                                       ELSE RowLabels \o ColumnLabels

\* The cographic edge list of a 2x1 matrix is complete.
C1_Witness ==
  /\ pc = "m2g_free"
  /\ outputFormat = FILEFORMAT_GRAPH_EDGELIST
  /\ cographic
  /\ numRows = 2 /\ numColumns = 1
  /\ Len(stdout) = 3

\* C4: when a conversion returns, on whatever path, every resource it
\* acquired has been released.
C4_AllReleased ==
  pc \in {"m2g_return", "g2m_return"} => alloc = {}

Printed(text) == \E n \in 1..Len(stdout) : stdout[n].kind = text

\* C5: when matrixToGraph returns after a negative verdict for which the
\* engine returned a violating submatrix, the violator's index lists have
\* been printed iff -n was given and the violator matrix iff -N was given.
C5_ViolatorOutput ==
  pc = "m2g_return" /\ ret = CMR_OKAY /\ ~isCoGraphic
    /\ engineSubmatrix # NULL =>
      /\ Printed("violator elements") <=> outputNonGraphicElements
      /\ Printed("violator matrix") <=> outputNonGraphicMatrix

\* C9: when the output of a positive cographic verdict is complete, in
\* either form, every line labelled r<i> carries the endpoints of the edge
\* columnEdges[i-1] and every line labelled c<j> those of rowEdges[j-1], and
\* no array was read outside its bounds.
C9_CographicRolesSwapped ==
  pc = "m2g_free" /\ cographic =>
    /\ ~oob
    /\ \A n \in 1..Len(stdout) :
         /\ stdout[n].tag = "r" =>
              <<stdout[n].u, stdout[n].v>> =
                Endpoints(Deref(columnEdges)[stdout[n].num])
         /\ stdout[n].tag = "c" =>
              <<stdout[n].u, stdout[n].v>> =
                Endpoints(Deref(rowEdges)[stdout[n].num])

----------------------------------------------------------------------------
(* Claims about graphToMatrix's forest extraction, checked under SpecConv *)

NumEdges == Deref(graph).numEdges

\* The iterator positions whose edge is tagged Row(i) / Column(j).
RowPositions(i) ==
  {p \in 0..(NumEdges - 1) :
     LET element == ElementOf(CMRgraphEdgesEdge(Deref(graph), p))
     IN CMRelementIsRow(element) /\ CMRelementToRowIndex(element) = i}

ColumnPositions(j) ==
  {p \in 0..(NumEdges - 1) :
     LET element == ElementOf(CMRgraphEdgesEdge(Deref(graph), p))
     IN CMRelementIsColumn(element) /\ CMRelementToColumnIndex(element) = j}

NumRowTagged == Cardinality(UNION {RowPositions(i) : i \in 0..MaxIndex})

NumColumnTagged == Cardinality(UNION {ColumnPositions(j) : j \in 0..MaxIndex})

Min(S) == CHOOSE x \in S : \A y \in S : x <= y

Max(S) == CHOOSE x \in S : \A y \in S : y <= x

\* The edge about to be scanned carries an index outside its array.
ScansOutOfRange ==
  /\ pc = "g2m_scan"
  /\ CMRgraphEdgesValid(Deref(graph), k)
  /\ LET element == ElementOf(CMRgraphEdgesEdge(Deref(graph), k)) IN
       \/ /\ CMRelementIsRow(element)
          /\ CMRelementToRowIndex(element) >= numForestEdges
       \/ /\ CMRelementIsColumn(element)
          /\ CMRelementToColumnIndex(element) >= numCoforestEdges

\* C2: the scan step of an edge tagged Row(i) with i >= numForestEdges, or
\* Column(j) with j >= numCoforestEdges, raises no error, accesses no array
\* outside its bounds and leaves every slot of both arrays as it was; the
\* scan goes on with the next edge.
C2_OutOfRangeSkipped ==
  [][ScansOutOfRange =>
       /\ forestEdges' = forestEdges
       /\ coforestEdges' = coforestEdges
       /\ ~oob'
       /\ ret' = UNSET
       /\ pc' = "g2m_scan" /\ k' = k + 1]_vars

\* An out-of-range edge has just been scanned, after an edge that was stored.
C2_Witness ==
  /\ pc = "g2m_scan"
  /\ k >= 2
  /\ LET element == ElementOf(CMRgraphEdgesEdge(Deref(graph), k - 1)) IN
       \/ /\ CMRelementIsRow(element)
          /\ CMRelementToRowIndex(element) >= numForestEdges
       \/ /\ CMRelementIsColumn(element)
          /\ CMRelementToColumnIndex(element) >= numCoforestEdges
  /\ \E n \in 1..Len(Deref(forestEdges)) : Deref(forestEdges)[n] # Unassigned

\* The Row tags are exactly 0..k-1 and the Column tags exactly 0..m-1, each
\* once.
WellTagged ==
  /\ \A i \in 0..MaxIndex :
       Cardinality(RowPositions(i)) = IF i < NumRowTagged THEN 1 ELSE 0
  /\ \A j \in 0..MaxIndex :
       Cardinality(ColumnPositions(j)) = IF j < NumColumnTagged THEN 1 ELSE 0

\* C3: after the scan of a graph whose Row tags are exactly 0..k-1 and whose
\* Column tags are exactly 0..m-1, each once, numForestEdges = k,
\* numCoforestEdges = m, forestEdges[i] is the edge tagged Row(i) and
\* coforestEdges[j] the edge tagged Column(j), and no slot is unassigned.
C3_ExtractionComplete ==
  pc = "g2m_compute" /\ WellTagged =>
    /\ numForestEdges = NumRowTagged
    /\ numCoforestEdges = NumColumnTagged
    /\ Len(Deref(forestEdges)) = NumRowTagged
    /\ Len(Deref(coforestEdges)) = NumColumnTagged
    /\ \A i \in 0..(NumRowTagged - 1) :
         /\ Deref(forestEdges)[i + 1] # Unassigned
         /\ RowPositions(i) = {Deref(forestEdges)[i + 1]}
    /\ \A j \in 0..(NumColumnTagged - 1) :
         /\ Deref(coforestEdges)[j + 1] # Unassigned
         /\ ColumnPositions(j) = {Deref(coforestEdges)[j + 1]}

\* The scan of a graph with the edges r1, c1 and an edge without tag is over.
C3_Witness ==
  /\ pc = "g2m_compute"
  /\ WellTagged
  /\ NumRowTagged >= 1 /\ NumColumnTagged >= 1
  /\ NumRowTagged + NumColumnTagged < NumEdges

\* C8, as stated: after the scan, a slot whose index is carried by several
\* edges holds the one scanned first.
C8_FirstEdgeKept ==
  pc = "g2m_compute" =>
    /\ \A i \in 0..(numForestEdges - 1) :
         RowPositions(i) # {} =>
           Deref(forestEdges)[i + 1] =
             CMRgraphEdgesEdge(Deref(graph), Min(RowPositions(i)))
    /\ \A j \in 0..(numCoforestEdges - 1) :
         ColumnPositions(j) # {} =>
           Deref(coforestEdges)[j + 1] =
             CMRgraphEdgesEdge(Deref(graph), Min(ColumnPositions(j)))

\* C8, amended: an edge whose tag repeats the index of an edge scanned
\* earlier raises no error and is not skipped: it replaces the earlier edge,
\* so that after the scan every slot in range whose index some edge carries
\* holds the edge scanned last with that index.
C8_LastEdgeKept ==
  pc = "g2m_compute" =>
    /\ ret = UNSET
    /\ \A i \in 0..(numForestEdges - 1) :
         RowPositions(i) # {} =>
           Deref(forestEdges)[i + 1] =
             CMRgraphEdgesEdge(Deref(graph), Max(RowPositions(i)))
    /\ \A j \in 0..(numCoforestEdges - 1) :
         ColumnPositions(j) # {} =>
           Deref(coforestEdges)[j + 1] =
             CMRgraphEdgesEdge(Deref(graph), Max(ColumnPositions(j)))

\* The scan of a graph with two edges of the same in-range Row index is over.
C8_Witness ==
  /\ pc = "g2m_compute"
  /\ \E i \in 0..(numForestEdges - 1) : Cardinality(RowPositions(i)) >= 2

====
